---- MODULE Spec2Model ----
(***************************************************************************)
(* Bulk edit preview (bulkEditPreview.ts): CheckedStates,                  *)
(* BulkFileOperation, BulkCategory, BulkFileOperations and                 *)
(* BulkEditPreviewProvider.                                                *)
(*                                                                         *)
(* An edit object is identified by its position in _bulkEdit.edits; the    *)
(* source counts positions from 0, the model from 1.                       *)
(***************************************************************************)
EXTENDS Integers, Sequences, FiniteSets, TLC

\* ------------------------------------------------------------- bounds
MaxEdits == 2
MaxPos == 1
FoldLen == 3
MaxTasks == 2

\* ---------------------------------------------------------- constants
\* BulkFileOperationType
TextEdit == 1
Create == 2
Delete == 4
Rename == 8

URIs == {"A", "B"}
NoUri == "<none>"
Hole == 0

\* options: overwrite is compared with undefined, the two others are only
\* tested for truthiness (undefined behaves as false)
NoOptions == [overwrite |-> "undefined", ignoreIfExists |-> FALSE, ignoreIfNotExists |-> FALSE]
IgnoreIfExists == [overwrite |-> "undefined", ignoreIfExists |-> TRUE, ignoreIfNotExists |-> FALSE]
OverwriteIgnoreIfExists == [overwrite |-> "true", ignoreIfExists |-> TRUE, ignoreIfNotExists |-> FALSE]
IgnoreIfNotExists == [overwrite |-> "undefined", ignoreIfExists |-> FALSE, ignoreIfNotExists |-> TRUE]

\* metadata: an absent metadata object reads as label "" and
\* needsConfirmation FALSE through the ?. accesses of the source
NoMetadata == [label |-> "", needsConfirmation |-> FALSE]
Confirm == [label |-> "L", needsConfirmation |-> TRUE]
Labelled == [label |-> "L", needsConfirmation |-> FALSE]

WorkspaceTextEdit(resource, start, metadata) ==
    [kind |-> "text", resource |-> resource, oldUri |-> NoUri, newUri |-> NoUri,
     options |-> NoOptions, metadata |-> metadata, start |-> start]

WorkspaceFileEdit(oldUri, newUri, options, metadata) ==
    [kind |-> "file", resource |-> NoUri, oldUri |-> oldUri, newUri |-> newUri,
     options |-> options, metadata |-> metadata, start |-> 0]

\* the elementary edits the submitted lists are drawn from
TextEdits ==
    {WorkspaceTextEdit("A", s, NoMetadata) : s \in {0, MaxPos}}
    \cup {WorkspaceTextEdit("A", 0, Confirm)}
    \cup {WorkspaceTextEdit("B", 0, m) : m \in {NoMetadata, Labelled}}

FileEdits ==
    {WorkspaceFileEdit("A", "B", NoOptions, m) : m \in {NoMetadata, Confirm}}
    \cup {WorkspaceFileEdit("A", "B", o, NoMetadata) : o \in {IgnoreIfExists, OverwriteIgnoreIfExists}}
    \cup {WorkspaceFileEdit("B", "A", NoOptions, NoMetadata)}
    \cup {WorkspaceFileEdit("A", NoUri, o, NoMetadata) : o \in {NoOptions, IgnoreIfNotExists}}
    \cup {WorkspaceFileEdit(NoUri, "B", o, NoMetadata) : o \in {NoOptions, IgnoreIfExists}}
    \cup {WorkspaceFileEdit(NoUri, NoUri, NoOptions, NoMetadata)}

Edits == TextEdits \cup FileEdits

EditLists == UNION {[1..n -> Edits] : n \in 0..MaxEdits}

\* lists of FoldLen edits around renames: an operation filed under the new URI
\* before the rename, chained renames, edits in another category
FoldEdits ==
    {WorkspaceTextEdit("B", 0, m) : m \in {NoMetadata, Labelled}}
    \cup {WorkspaceTextEdit("C", 0, NoMetadata)}
    \cup {WorkspaceFileEdit("A", "B", o, NoMetadata) : o \in {NoOptions, IgnoreIfExists}}
    \cup {WorkspaceFileEdit("B", "C", NoOptions, NoMetadata)}

FoldLists == [1..FoldLen -> FoldEdits]

\* the edits of the lists the preview provider is run on
PreviewEdits ==
    {WorkspaceTextEdit("A", s, NoMetadata) : s \in {0, MaxPos}}
    \cup {WorkspaceTextEdit("B", 0, NoMetadata)}
    \cup {WorkspaceFileEdit(NoUri, "B", IgnoreIfExists, NoMetadata)}

\* lists with a text edit of A at position 0, so that the preview of A has
\* something to project
PreviewLists ==
    {l \in UNION {[1..n -> PreviewEdits] : n \in 1..MaxEdits} :
        \E i \in DOMAIN l : l[i] = WorkspaceTextEdit("A", 0, NoMetadata)}

\* -------------------------------------------------------------- state
VARIABLES
    bulkEdit,            \* _bulkEdit.edits, the submitted list
    pc,                  \* "_init" while _init() runs, "ready" once it returned
    idx,                 \* loop variable of _init (1-based)
    states,              \* CheckedStates._states (edit -> boolean, partial)
    checkedCount,        \* CheckedStates._checkedCount
    calls,               \* updateChecked calls made by the last step: <<obj, value>>
    fired,               \* _onDidChange events fired by the last step
    operationByResource, \* _init local: Map in insertion order
    operationByCategory, \* _init local: Map in insertion order
    newToOldUri,         \* _init local: ResourceMap
    existsAt,            \* idx -> the resources named by the edit that existed when
                         \* its iteration consulted _fileService.exists
    skipped,             \* the positions whose iteration ended in `continue`
    fileOperations,      \* BulkFileOperations.fileOperations
    categories,          \* BulkFileOperations.categories
    ret,                 \* the value returned by the last call of a query
    existsFailedAt,      \* the position at which _fileService.exists rejected, or 0
    ppc,                 \* BulkEditPreviewProvider: "none" before construction, "_init"
                         \* while _init() loops, "ready" once the listener is registered
    initPos,             \* position of the loop of BulkEditPreviewProvider._init
    tasks,               \* the calls of _applyTextEditsToPreviewModel in flight
    models,              \* _modelService: real uri of a preview uri -> document
    created,             \* uri -> number of createModel calls for its preview uri
    modelPreviewEdits,   \* _modelPreviewEdits (undo edits per document)
    openFailed,          \* the uris for which createModelReference rejected
    errors               \* the edits for which the change listener threw

\* the state of BulkFileOperations and its CheckedStates
avars == <<bulkEdit, pc, idx, states, checkedCount, calls, fired, operationByResource,
           operationByCategory, newToOldUri, existsAt, skipped, fileOperations,
           categories, ret, existsFailedAt>>

\* the state of BulkEditPreviewProvider
pvars == <<ppc, initPos, tasks, models, created, modelPreviewEdits, openFailed, errors>>

vars == <<avars, pvars>>

NoRet == [op |-> "none", arg |-> NoUri, ref |-> "none", val |-> <<>>]

\* ----------------------------------------------------- CheckedStates
isCheckedIn(st, obj) == IF obj \in DOMAIN st THEN st[obj] ELSE FALSE

isChecked(obj) == isCheckedIn(states, obj)

\* a tracker value threaded through the calls of one step
Tracker == [states |-> states, checkedCount |-> checkedCount, calls |-> <<>>, fired |-> <<>>]

updateChecked_all(t, obj, value) ==
    [states |-> [o \in DOMAIN t.states \cup {obj} |-> value],
     checkedCount |-> IF value THEN Cardinality(DOMAIN t.states \cup {obj}) ELSE 0,
     calls |-> Append(t.calls, <<obj, value>>),
     fired |-> Append(t.fired, obj)]

updateChecked_countUnseen(t, obj, value) ==
    LET known == obj \in DOMAIN t.states
        logged == [t EXCEPT !.calls = Append(@, <<obj, value>>)]
    IN  IF known /\ t.states[obj] = value
        THEN logged
        ELSE [logged EXCEPT
                !.checkedCount = IF value THEN @ + 1 ELSE @ - 1,
                !.states = [o \in DOMAIN t.states \cup {obj} |->
                               IF o = obj THEN value ELSE t.states[o]],
                !.fired = Append(@, obj)]

updateChecked(t, obj, value) ==
    LET known == obj \in DOMAIN t.states
        logged == [t EXCEPT !.calls = Append(@, <<obj, value>>)]
    IN  IF known /\ t.states[obj] = value
        THEN logged
        ELSE [logged EXCEPT
                !.checkedCount = IF ~known
                                 THEN (IF value THEN @ + 1 ELSE @)
                                 ELSE (IF value THEN @ + 1 ELSE @ - 1),
                !.states = [o \in DOMAIN t.states \cup {obj} |->
                               IF o = obj THEN value ELSE t.states[o]],
                !.fired = Append(@, obj)]

SetTracker(t) ==
    /\ states' = t.states
    /\ checkedCount' = t.checkedCount
    /\ calls' = t.calls
    /\ fired' = t.fired

\* ------------------------------------------------- BulkFileOperation
BitOr(a, b) ==
    LET bit(v) == IF (a \div v) % 2 = 1 \/ (b \div v) % 2 = 1 THEN v ELSE 0
    IN  bit(1) + bit(2) + bit(4) + bit(8)

WorkspaceTextEditIs(edit) == edit.kind = "text"

WorkspaceFileEditIs(edit) ==
    edit.kind = "file" /\ (edit.newUri # NoUri \/ edit.oldUri # NoUri)

InSeq(s, x) == \E k \in 1..Len(s) : s[k] = x

BulkFileOperation(uri) ==
    [uri |-> uri, type |-> 0, textEdits |-> <<>>, originalEdits |-> <<>>, newUri |-> NoUri]

addEdit_overwriteType(op, index, type, edit) ==
    [op EXCEPT
        !.type = type,
        !.originalEdits = IF InSeq(@, index) THEN @ ELSE Append(@, index),
        !.textEdits = IF WorkspaceTextEditIs(edit) THEN Append(@, index) ELSE @,
        !.newUri = IF ~WorkspaceTextEditIs(edit) /\ type = Rename THEN edit.newUri ELSE @]

addEdit(op, index, type, edit) ==
    [op EXCEPT
        !.type = BitOr(@, type),
        !.originalEdits = IF InSeq(@, index) THEN @ ELSE Append(@, index),
        !.textEdits = IF WorkspaceTextEditIs(edit) THEN Append(@, index) ELSE @,
        !.newUri = IF ~WorkspaceTextEditIs(edit) /\ type = Rename THEN edit.newUri ELSE @]

\* ------------------------------------------------------ BulkCategory
keyOf(metadata) == IF metadata.label # "" THEN metadata.label ELSE "<default>"

BulkCategory(metadata) ==
    [key |-> keyOf(metadata), metadata |-> metadata, operationByResource |-> <<>>]

\* ------------------------------------------- BulkFileOperations._init
\* Map.get: the position of the entry filed under key, 0 when there is none
MapGet(map, key) ==
    IF \E k \in 1..Len(map) : map[k].uri = key
    THEN CHOOSE k \in 1..Len(map) : map[k].uri = key
    ELSE 0

insert_both(map, uri, index, type, edit, n2o) ==
    LET first == MapGet(map, uri)
        renamed == first = 0 /\ uri \in DOMAIN n2o
        uri2 == IF renamed THEN n2o[uri] ELSE uri
        at == IF renamed THEN MapGet(map, uri2) ELSE first
        filed == IF at = 0
                 THEN Append(map, addEdit(BulkFileOperation(uri2), index, type, edit))
                 ELSE [map EXCEPT ![at] = addEdit(@, index, type, edit)]
    IN  IF renamed
        THEN Append(filed, addEdit(BulkFileOperation(uri), index, type, edit))
        ELSE filed

insert(map, uri, index, type, edit, n2o) ==
    LET first == MapGet(map, uri)
        renamed == first = 0 /\ uri \in DOMAIN n2o
        uri2 == IF renamed THEN n2o[uri] ELSE uri
        at == IF renamed THEN MapGet(map, uri2) ELSE first
    IN  IF at = 0
        THEN Append(map, addEdit(BulkFileOperation(uri2), index, type, edit))
        ELSE [map EXCEPT ![at] = addEdit(@, index, type, edit)]

\* whether the iteration consults _fileService.exists (the && short-circuits)
asksExists(edit) ==
    /\ ~WorkspaceTextEditIs(edit)
    /\ IF edit.newUri # NoUri /\ edit.oldUri # NoUri
       THEN edit.options.overwrite = "undefined" /\ edit.options.ignoreIfExists
       ELSE IF edit.oldUri # NoUri
       THEN edit.options.ignoreIfNotExists
       ELSE IF edit.newUri # NoUri
       THEN edit.options.overwrite = "undefined" /\ edit.options.ignoreIfExists
       ELSE FALSE

classify_keepCreate(edit, fs) ==
    IF WorkspaceTextEditIs(edit)
    THEN [type |-> TextEdit, uri |-> edit.resource, skip |-> FALSE]
    ELSE IF edit.newUri # NoUri /\ edit.oldUri # NoUri
    THEN [type |-> Rename, uri |-> edit.oldUri,
          skip |-> edit.options.overwrite = "undefined" /\ edit.options.ignoreIfExists
                   /\ edit.oldUri \in fs]
    ELSE IF edit.oldUri # NoUri
    THEN [type |-> Delete, uri |-> edit.oldUri,
          skip |-> edit.options.ignoreIfNotExists /\ edit.oldUri \notin fs]
    ELSE IF edit.newUri # NoUri
    THEN [type |-> Create, uri |-> edit.newUri, skip |-> FALSE]
    ELSE [type |-> 0, uri |-> NoUri, skip |-> TRUE]

\* the if/else-if chain that sets type and uri or ends the iteration;
\* fs is the set of resources for which _fileService.exists answers true
classify(edit, fs) ==
    IF WorkspaceTextEditIs(edit)
    THEN [type |-> TextEdit, uri |-> edit.resource, skip |-> FALSE]
    ELSE IF edit.newUri # NoUri /\ edit.oldUri # NoUri
    THEN [type |-> Rename, uri |-> edit.oldUri,
          skip |-> edit.options.overwrite = "undefined" /\ edit.options.ignoreIfExists
                   /\ edit.oldUri \in fs]
    ELSE IF edit.oldUri # NoUri
    THEN [type |-> Delete, uri |-> edit.oldUri,
          skip |-> edit.options.ignoreIfNotExists /\ edit.oldUri \notin fs]
    ELSE IF edit.newUri # NoUri
    THEN [type |-> Create, uri |-> edit.newUri,
          skip |-> edit.options.overwrite = "undefined" /\ edit.options.ignoreIfExists
                   /\ edit.newUri \in fs]
    ELSE [type |-> 0, uri |-> NoUri, skip |-> TRUE]

CategoryGet(map, key) ==
    IF \E k \in 1..Len(map) : map[k].key = key
    THEN CHOOSE k \in 1..Len(map) : map[k].key = key
    ELSE 0

insertCategory(map, uri, index, type, edit, n2o) ==
    LET key == keyOf(edit.metadata)
        had == CategoryGet(map, key)
        map2 == IF had = 0 THEN Append(map, BulkCategory(edit.metadata)) ELSE map
        at == CategoryGet(map2, key)
    IN  [map2 EXCEPT ![at].operationByResource = insert(@, uri, index, type, edit, n2o)]

\* one iteration of the for loop of _init
initEdit ==
    /\ pc = "_init"
    /\ idx <= Len(bulkEdit)
    /\ LET edit == bulkEdit[idx]
           seeded == updateChecked(Tracker, idx, ~edit.metadata.needsConfirmation)
       IN  /\ SetTracker(seeded)
           /\ \E fs \in (IF asksExists(edit)
                         THEN SUBSET ({edit.oldUri, edit.newUri} \ {NoUri})
                         ELSE {{}}) :
                LET c == classify(edit, fs)
                    n2o == IF c.type = Rename /\ ~c.skip
                           THEN [u \in DOMAIN newToOldUri \cup {edit.newUri} |->
                                    IF u = edit.newUri THEN c.uri ELSE newToOldUri[u]]
                           ELSE newToOldUri
                IN  /\ existsAt' = IF asksExists(edit)
                                   THEN [i \in DOMAIN existsAt \cup {idx} |->
                                            IF i = idx THEN fs ELSE existsAt[i]]
                                   ELSE existsAt
                    /\ newToOldUri' = n2o
                    /\ IF c.skip
                       THEN /\ skipped' = skipped \cup {idx}
                            /\ UNCHANGED <<operationByResource, operationByCategory>>
                       ELSE /\ skipped' = skipped
                            /\ operationByResource' =
                                   insert(operationByResource, c.uri, idx, c.type, edit, n2o)
                            /\ operationByCategory' =
                                   insertCategory(operationByCategory, c.uri, idx, c.type, edit, n2o)
    /\ idx' = idx + 1
    /\ ret' = NoRet
    /\ UNCHANGED <<bulkEdit, pc, fileOperations, categories, existsFailedAt>>
    /\ UNCHANGED pvars

awaitExists_swallow(rejected) == "_init"

\* where _init stands after `await this._fileService.exists(uri)`: a rejection
\* leaves _init and create() through the awaits, nothing catches it
awaitExists(rejected) == IF rejected THEN "failed" ELSE "_init"

\* an iteration of the for loop of _init whose existence check rejects
initExistsRejected ==
    /\ pc = "_init"
    /\ idx <= Len(bulkEdit)
    /\ asksExists(bulkEdit[idx])
    /\ SetTracker(updateChecked(Tracker, idx, ~bulkEdit[idx].metadata.needsConfirmation))
    /\ existsFailedAt' = idx
    /\ pc' = awaitExists(TRUE)
    /\ idx' = IF pc' = "failed" THEN idx ELSE idx + 1
    /\ skipped' = IF pc' = "failed" THEN skipped ELSE skipped \cup {idx}
    /\ ret' = NoRet
    /\ UNCHANGED <<bulkEdit, operationByResource, operationByCategory, newToOldUri, existsAt,
                   fileOperations, categories>>
    /\ UNCHANGED pvars

\* the structural contributions of an operation are all checked
fileEditsChecked(st, file) ==
    \A k \in 1..Len(file.originalEdits) :
        WorkspaceFileEditIs(bulkEdit[file.originalEdits[k]])
            => isCheckedIn(st, file.originalEdits[k])

RECURSIVE updateAll(_, _, _)
updateAll(t, ids, value) ==
    IF ids = <<>> THEN t
    ELSE updateAll(updateChecked(t, Head(ids), value), Tail(ids), value)

correctFile_fileEditsOnly(t, file) ==
    IF file.type # TextEdit /\ ~fileEditsChecked(t.states, file)
    THEN updateAll(t, SelectSeq(file.originalEdits,
                                LAMBDA i : WorkspaceFileEditIs(bulkEdit[i])), FALSE)
    ELSE t

\* the body of the loop that "corrects" invalid parent-child states
correctFile(t, file) ==
    IF file.type # TextEdit /\ ~fileEditsChecked(t.states, file)
    THEN updateAll(t, file.originalEdits, FALSE)
    ELSE t

RECURSIVE correctFiles(_, _)
correctFiles(t, files) ==
    IF files = <<>> THEN t
    ELSE correctFiles(correctFile(t, Head(files)), Tail(files))

\* the end of _init: publish the operations, run the repair pass, return
initFinish ==
    /\ pc = "_init"
    /\ idx > Len(bulkEdit)
    /\ fileOperations' = operationByResource
    /\ categories' = operationByCategory
    /\ SetTracker(correctFiles(Tracker, operationByResource))
    /\ pc' = "ready"
    /\ ret' = NoRet
    /\ UNCHANGED <<bulkEdit, idx, operationByResource, operationByCategory, newToOldUri,
                   existsAt, skipped, existsFailedAt>>
    /\ UNCHANGED pvars

\* ------------------------------------------------------- getUriOfEdit
NotFound == "<invalid edit>"

getUriOfEdit(edit) ==
    IF \E k \in 1..Len(fileOperations) : InSeq(fileOperations[k].originalEdits, edit)
    THEN fileOperations[CHOOSE k \in 1..Len(fileOperations) :
                           /\ InSeq(fileOperations[k].originalEdits, edit)
                           /\ \A j \in 1..(k - 1) :
                                  ~InSeq(fileOperations[j].originalEdits, edit)].uri
    ELSE NotFound

\* ------------------------------- BulkEditPreviewProvider: change listener
listening_early == ppc \in {"_init", "ready"}

\* the listener on checked.onDidChange is registered after the loop of _init
listening == ppc = "ready"

\* _applyTextEditsToPreviewModel(uri) up to its first suspension: with a model
\* at hand it waits to be resumed, without one it waits for createModelReference
startTask(ms, uri, awaited) ==
    [uri |-> uri, at |-> IF uri \in DOMAIN ms THEN "resume" ELSE "open", awaited |-> awaited]

\* the listener, called with the events a call of updateChecked fired
onDidChange(events) ==
    IF ~listening \/ events = <<>>
    THEN UNCHANGED <<tasks, errors>>
    ELSE LET uri == getUriOfEdit(events[1])
         IN  IF uri = NotFound
             THEN /\ errors' = errors \cup {events[1]}
                  /\ tasks' = tasks
             ELSE /\ tasks' = Append(tasks, startTask(models, uri, FALSE))
                  /\ errors' = errors

\* ------------------------------------------------------------- toggle
\* the UI sets the checked state of an edit of the list
toggle ==
    /\ pc = "ready"
    /\ Len(tasks) < MaxTasks
    /\ \E obj \in 1..Len(bulkEdit), value \in BOOLEAN :
         LET t == updateChecked(Tracker, obj, value)
         IN  /\ SetTracker(t)
             /\ onDidChange(t.fired)
    /\ ret' = NoRet
    /\ UNCHANGED <<bulkEdit, pc, idx, operationByResource, operationByCategory, newToOldUri,
                   existsAt, skipped, fileOperations, categories, existsFailedAt>>
    /\ UNCHANGED <<ppc, initPos, models, created, modelPreviewEdits, openFailed>>

\* ---------------------------------------------------- getWorkspaceEdit
RECURSIVE coalesceInPlace(_)
\* arrays.coalesceInPlace: drops the empty slots, keeps the order
coalesceInPlace(array) ==
    IF array = <<>> THEN <<>>
    ELSE IF Head(array) # Hole
         THEN <<Head(array)>> \o coalesceInPlace(Tail(array))
         ELSE coalesceInPlace(Tail(array))

SetMax(S) == CHOOSE m \in S : \A x \in S : x <= m

\* the list a WorkspaceEdit holds, its edits named by their position in _bulkEdit
AllEdits == [i \in 1..Len(bulkEdit) |-> i]

getWorkspaceEdit_alwaysCopy ==
    [ref |-> "result", edits |-> SelectSeq(AllEdits, isChecked)]

getWorkspaceEdit_noCoalesce ==
    LET kept == {i \in 1..Len(bulkEdit) : isChecked(i)}
        length == IF kept = {} THEN 0 ELSE SetMax(kept)
    IN  IF kept = 1..Len(bulkEdit)
        THEN [ref |-> "_bulkEdit", edits |-> AllEdits]
        ELSE [ref |-> "result", edits |-> [i \in 1..length |-> IF i \in kept THEN i ELSE Hole]]

\* ref names the list object returned: _bulkEdit itself or the fresh result.
\* result.edits[i] = edit leaves empty slots below the highest kept position.
getWorkspaceEdit ==
    LET kept == {i \in 1..Len(bulkEdit) : isChecked(i)}
        allAccepted == kept = 1..Len(bulkEdit)
        length == IF kept = {} THEN 0 ELSE SetMax(kept)
        edits == [i \in 1..length |-> IF i \in kept THEN i ELSE Hole]
    IN  IF allAccepted
        THEN [ref |-> "_bulkEdit", edits |-> AllEdits]
        ELSE [ref |-> "result", edits |-> coalesceInPlace(edits)]

callGetWorkspaceEdit ==
    /\ pc = "ready"
    /\ ret' = [op |-> "getWorkspaceEdit", arg |-> NoUri,
               ref |-> getWorkspaceEdit.ref, val |-> getWorkspaceEdit.edits]
    /\ calls' = <<>>
    /\ fired' = <<>>
    /\ UNCHANGED <<bulkEdit, pc, idx, states, checkedCount, operationByResource,
                   operationByCategory, newToOldUri, existsAt, skipped, fileOperations,
                   categories, existsFailedAt>>
    /\ UNCHANGED pvars

\* -------------------------------------------------------- getFileEdits
\* Range.compareRangesUsingStarts on the start positions of two ranges
compareRangesUsingStarts(a, b) == a - b

RECURSIVE merge(_, _)
merge(left, right) ==
    IF left = <<>> THEN right
    ELSE IF right = <<>> THEN left
    ELSE IF compareRangesUsingStarts(Head(right).range, Head(left).range) < 0
         THEN <<Head(right)>> \o merge(left, Tail(right))
         ELSE <<Head(left)>> \o merge(Tail(left), right)

RECURSIVE mergeSort(_)
\* arrays.mergeSort with the comparator getFileEdits passes
mergeSort(data) ==
    IF Len(data) <= 1 THEN data
    ELSE LET mid == (Len(data) + 1) \div 2
         IN  merge(mergeSort(SubSeq(data, 1, mid)), mergeSort(SubSeq(data, mid + 1, Len(data))))

\* EditOperation.replaceMove(Range.lift(edit.edit.range), edit.edit.text);
\* edit records which text edit the operation was made from
replaceMove(i) == [range |-> bulkEdit[i].start, edit |-> i]

FirstFile(uri) == CHOOSE k \in 1..Len(fileOperations) :
                      /\ fileOperations[k].uri = uri
                      /\ \A j \in 1..(k - 1) : fileOperations[j].uri # uri

getFileEdits_noVeto(uri) ==
    IF ~\E k \in 1..Len(fileOperations) : fileOperations[k].uri = uri
    THEN <<>>
    ELSE LET file == fileOperations[FirstFile(uri)]
             texts == SelectSeq(file.originalEdits,
                          LAMBDA i : WorkspaceTextEditIs(bulkEdit[i]) /\ isChecked(i))
         IN  mergeSort([k \in 1..Len(texts) |-> replaceMove(texts[k])])

getFileEdits_unsorted(uri) ==
    IF ~\E k \in 1..Len(fileOperations) : fileOperations[k].uri = uri
    THEN <<>>
    ELSE LET file == fileOperations[FirstFile(uri)]
             texts == SelectSeq(file.originalEdits,
                          LAMBDA i : WorkspaceTextEditIs(bulkEdit[i]) /\ isChecked(i))
             ignoreAll == \E k \in 1..Len(file.originalEdits) :
                              /\ ~WorkspaceTextEditIs(bulkEdit[file.originalEdits[k]])
                              /\ ~isChecked(file.originalEdits[k])
         IN  IF ignoreAll THEN <<>>
             ELSE [k \in 1..Len(texts) |-> replaceMove(texts[k])]

getFileEdits(uri) ==
    IF ~\E k \in 1..Len(fileOperations) : fileOperations[k].uri = uri
    THEN <<>>
    ELSE LET file == fileOperations[FirstFile(uri)]
             texts == SelectSeq(file.originalEdits,
                          LAMBDA i : WorkspaceTextEditIs(bulkEdit[i]) /\ isChecked(i))
             ignoreAll == \E k \in 1..Len(file.originalEdits) :
                              /\ ~WorkspaceTextEditIs(bulkEdit[file.originalEdits[k]])
                              /\ ~isChecked(file.originalEdits[k])
         IN  IF ignoreAll THEN <<>>
             ELSE mergeSort([k \in 1..Len(texts) |-> replaceMove(texts[k])])

callGetFileEdits ==
    /\ pc = "ready"
    /\ \E uri \in URIs :
         ret' = [op |-> "getFileEdits", arg |-> uri, ref |-> "none", val |-> getFileEdits(uri)]
    /\ calls' = <<>>
    /\ fired' = <<>>
    /\ UNCHANGED <<bulkEdit, pc, idx, states, checkedCount, operationByResource,
                   operationByCategory, newToOldUri, existsAt, skipped, fileOperations,
                   categories, existsFailedAt>>
    /\ UNCHANGED pvars

\* ---------------------------------------------- BulkEditPreviewProvider
\* A document is its initial content (base) and the edit lists applied on
\* top of it, the latest last; reverted records that a stored undo has been
\* applied to it. An edit list is a projection or the inverse of one.
applyEdits(layers, e) ==
    IF e.edits = <<>> THEN layers
    ELSE IF ~e.inverse THEN Append(layers, e.edits)
    ELSE IF layers # <<>> /\ layers[Len(layers)] = e.edits
         THEN SubSeq(layers, 1, Len(layers) - 1)
         ELSE Append(layers, <<[range |-> 0, edit |-> Hole]>>)

\* the inverse edit list applyEdits returns
inverseOf(e) == [inverse |-> ~e.inverse, edits |-> e.edits]

RemoveAt(s, k) == SubSeq(s, 1, k - 1) \o SubSeq(s, k + 1, Len(s))

applyTextEditsToPreviewModel_noUndo(ms, mpe, uri) ==
    LET newEdits == [inverse |-> FALSE, edits |-> getFileEdits(uri)]
    IN  [models |-> [ms EXCEPT ![uri].layers = applyEdits(@, newEdits),
                               ![uri].reverted = @ \/ (uri \in DOMAIN mpe /\ mpe[uri].edits # <<>>)],
         modelPreviewEdits |-> [u \in DOMAIN mpe \cup {uri} |->
                                   IF u = uri THEN inverseOf(newEdits) ELSE mpe[u]]]

\* _applyTextEditsToPreviewModel after its await: undo, project, apply, store
applyTextEditsToPreviewModel(ms, mpe, uri) ==
    LET undone == IF uri \in DOMAIN mpe THEN applyEdits(ms[uri].layers, mpe[uri])
                  ELSE ms[uri].layers
        newEdits == [inverse |-> FALSE, edits |-> getFileEdits(uri)]
    IN  [models |-> [ms EXCEPT ![uri].layers = applyEdits(undone, newEdits),
                               ![uri].reverted = @ \/ (uri \in DOMAIN mpe /\ mpe[uri].edits # <<>>)],
         modelPreviewEdits |-> [u \in DOMAIN mpe \cup {uri} |->
                                   IF u = uri THEN inverseOf(newEdits) ELSE mpe[u]]]

\* the loop of _init at position pos: call _applyTextEditsToPreviewModel for
\* the next operation and await it, or leave the loop and register the listener
continueInit(pos, ts, ms) ==
    IF pos <= Len(fileOperations)
    THEN [ppc |-> "_init", initPos |-> pos,
          tasks |-> Append(ts, startTask(ms, fileOperations[pos].uri, TRUE))]
    ELSE [ppc |-> "ready", initPos |-> pos, tasks |-> ts]

\* what follows the completion of task k: the loop of _init goes on when it
\* awaited the task
afterTask(k, ms) ==
    LET rest == RemoveAt(tasks, k)
        c == continueInit(initPos + 1, rest, ms)
    IN  IF tasks[k].awaited
        THEN /\ ppc' = c.ppc
             /\ initPos' = c.initPos
             /\ tasks' = c.tasks
        ELSE /\ tasks' = rest
             /\ UNCHANGED <<ppc, initPos>>

\* the constructor: _ready = _init(), which runs up to its first await
providerCreate ==
    /\ pc = "ready"
    /\ ppc = "none"
    /\ LET c == continueInit(1, <<>>, models)
       IN  /\ ppc' = c.ppc
           /\ initPos' = c.initPos
           /\ tasks' = c.tasks
    /\ calls' = <<>>
    /\ fired' = <<>>
    /\ ret' = NoRet
    /\ UNCHANGED <<bulkEdit, pc, idx, states, checkedCount, operationByResource,
                   operationByCategory, newToOldUri, existsAt, skipped, fileOperations,
                   categories, existsFailedAt>>
    /\ UNCHANGED <<models, created, modelPreviewEdits, openFailed, errors>>

\* createModelReference(uri) settles for a task that found no model: the
\* model is created from the snapshot or, in the catch, empty; the task then
\* runs to its end
taskOpened ==
    /\ \E k \in 1..Len(tasks), ok \in BOOLEAN :
         /\ tasks[k].at = "open"
         /\ LET uri == tasks[k].uri
                doc == [base |-> IF ok THEN "snapshot" ELSE "empty", layers |-> <<>>,
                        reverted |-> FALSE]
                ms == [u \in DOMAIN models \cup {uri} |-> IF u = uri THEN doc ELSE models[u]]
                r == applyTextEditsToPreviewModel(ms, modelPreviewEdits, uri)
            IN  /\ created' = [u \in DOMAIN created \cup {uri} |->
                                  IF u = uri
                                  THEN (IF u \in DOMAIN created THEN created[u] + 1 ELSE 1)
                                  ELSE created[u]]
                /\ openFailed' = IF ok THEN openFailed ELSE openFailed \cup {uri}
                /\ models' = r.models
                /\ modelPreviewEdits' = r.modelPreviewEdits
                /\ afterTask(k, r.models)
    /\ calls' = <<>>
    /\ fired' = <<>>
    /\ ret' = NoRet
    /\ UNCHANGED <<bulkEdit, pc, idx, states, checkedCount, operationByResource,
                   operationByCategory, newToOldUri, existsAt, skipped, fileOperations,
                   categories, existsFailedAt>>
    /\ UNCHANGED errors

\* a task that found its model is resumed and runs to its end
taskResumed ==
    /\ \E k \in 1..Len(tasks) :
         /\ tasks[k].at = "resume"
         /\ LET r == applyTextEditsToPreviewModel(models, modelPreviewEdits, tasks[k].uri)
            IN  /\ models' = r.models
                /\ modelPreviewEdits' = r.modelPreviewEdits
                /\ afterTask(k, r.models)
    /\ calls' = <<>>
    /\ fired' = <<>>
    /\ ret' = NoRet
    /\ UNCHANGED <<bulkEdit, pc, idx, states, checkedCount, operationByResource,
                   operationByCategory, newToOldUri, existsAt, skipped, fileOperations,
                   categories, existsFailedAt>>
    /\ UNCHANGED <<created, openFailed, errors>>

\* ------------------------------------------------------------- claims
isRename(edit) == ~WorkspaceTextEditIs(edit) /\ edit.newUri # NoUri /\ edit.oldUri # NoUri

isCreate(edit) == ~WorkspaceTextEditIs(edit) /\ edit.newUri # NoUri /\ edit.oldUri = NoUri

Occurrences(s, x) == Cardinality({k \in 1..Len(s) : s[k] = x})

OperationsHolding(map, i) == {k \in 1..Len(map) : InSeq(map[k].originalEdits, i)}

\* a structural (FileEdit) contribution of the operation is unchecked in st
structuralUnchecked(st, file) ==
    \E k \in 1..Len(file.originalEdits) :
        /\ WorkspaceFileEditIs(bulkEdit[file.originalEdits[k]])
        /\ ~isCheckedIn(st, file.originalEdits[k])

\* C1: once _init has returned, every edit of the list is a contribution of
\* exactly one operation of fileOperations, under one index entry, and of none
\* when its iteration was ended by `continue` (invalid or elided); no edit is
\* held by two operations.
C1_ExactlyOneOperation ==
    pc = "ready" =>
        \A i \in 1..Len(bulkEdit) :
            IF i \in skipped
            THEN OperationsHolding(fileOperations, i) = {}
            ELSE /\ Cardinality(OperationsHolding(fileOperations, i)) = 1
                 /\ \A k \in OperationsHolding(fileOperations, i) :
                        Occurrences(fileOperations[k].originalEdits, i) = 1

\* C1 witness: a text edit addressed to the new URI of a rename was redirected
\* and is held, with the rename, by the one operation of the list.
C1_Witness ==
    /\ pc = "ready"
    /\ Len(bulkEdit) = MaxEdits
    /\ Len(fileOperations) = 1
    /\ \E k \in 1..Len(fileOperations) :
         /\ fileOperations[k].type = Rename + TextEdit
         /\ Len(fileOperations[k].originalEdits) = 2

\* C2: for the list <<rename X to Y (not elided), text edit on Y>>, _init
\* yields exactly one operation: filed under X, holding both edits, of type
\* Rename|TextEdit, with newUri Y.
C2_RenameThenTextEdit ==
    ( /\ pc = "ready"
      /\ Len(bulkEdit) = 2
      /\ isRename(bulkEdit[1])
      /\ 1 \notin skipped
      /\ WorkspaceTextEditIs(bulkEdit[2])
      /\ bulkEdit[2].resource = bulkEdit[1].newUri )
    => fileOperations =
           << [uri |-> bulkEdit[1].oldUri, type |-> Rename + TextEdit, textEdits |-> <<2>>,
               originalEdits |-> <<1, 2>>, newUri |-> bulkEdit[1].newUri] >>

\* C2 witness: _init returned for such a list, its rename not elided.
C2_Witness ==
    /\ pc = "ready"
    /\ Len(bulkEdit) = 2
    /\ isRename(bulkEdit[1])
    /\ skipped = {}
    /\ WorkspaceTextEditIs(bulkEdit[2])
    /\ bulkEdit[2].resource = bulkEdit[1].newUri
    /\ Len(fileOperations) = 1

\* C3: in the step in which _init returns, every operation whose type is not
\* exactly TextEdit and that has an unchecked structural contribution ends with
\* all of its contributions unchecked, and the contributions of every operation
\* without an unchecked structural contribution keep their checked state.
C3_CascadeAtReturn ==
    [][ (pc = "_init" /\ pc' = "ready") =>
          \A k \in 1..Len(fileOperations') :
              LET file == fileOperations'[k]
              IN  /\ (file.type # TextEdit /\ structuralUnchecked(states', file)) =>
                         \A j \in 1..Len(file.originalEdits) :
                             ~isCheckedIn(states', file.originalEdits[j])
                  /\ ~structuralUnchecked(states, file) =>
                         \A j \in 1..Len(file.originalEdits) :
                             isCheckedIn(states', file.originalEdits[j])
                                 = isCheckedIn(states, file.originalEdits[j])
      ]_vars

\* C3 witness: _init has just returned and its repair pass unchecked a text
\* edit that was seeded checked, next to an unchecked structural edit.
C3_Witness ==
    /\ pc = "ready"
    /\ Len(calls) >= 2
    /\ \E k \in 1..Len(fileOperations) :
         /\ structuralUnchecked(states, fileOperations[k])
         /\ \E j \in 1..Len(fileOperations[k].textEdits) :
              LET t == fileOperations[k].textEdits[j]
              IN  /\ ~bulkEdit[t].metadata.needsConfirmation
                  /\ ~isChecked(t)
                  /\ InSeq(fired, t)

\* the step is toggle(e, FALSE) on a structural edit e
uncheckStep(e) ==
    /\ pc = "ready"
    /\ calls' = << <<e, FALSE>> >>
    /\ WorkspaceFileEditIs(bulkEdit[e])

\* C4 as stated: when all edits were seeded checked, unchecking a structural
\* edit with toggle makes every text edit of its operation report unchecked.
C4_ToggleCascades ==
    [][ \A e \in 1..Len(bulkEdit) :
          (uncheckStep(e) /\ \A i \in 1..Len(bulkEdit) : ~bulkEdit[i].metadata.needsConfirmation) =>
              \A k \in OperationsHolding(fileOperations, e) :
                  \A j \in 1..Len(fileOperations[k].textEdits) :
                      ~isCheckedIn(states', fileOperations[k].textEdits[j])
      ]_vars

\* C4 amended: unchecking a structural edit with toggle changes the checked
\* state of that edit only; the text edits of its operation report what they
\* reported before (the cascade is applied by the repair pass of _init alone).
C4_ToggleDoesNotCascade ==
    [][ \A e \in 1..Len(bulkEdit) :
          uncheckStep(e) =>
              \A k \in OperationsHolding(fileOperations, e) :
                  \A j \in 1..Len(fileOperations[k].textEdits) :
                      isCheckedIn(states', fileOperations[k].textEdits[j])
                          = isCheckedIn(states, fileOperations[k].textEdits[j])
      ]_vars

\* C4 witness: a structural edit was just unchecked by toggle and a text edit
\* of the same operation still reports checked.
C4_Witness ==
    /\ pc = "ready"
    /\ \E e \in 1..Len(bulkEdit) :
         /\ calls = << <<e, FALSE>> >>
         /\ fired = <<e>>
         /\ WorkspaceFileEditIs(bulkEdit[e])
         /\ \E k \in OperationsHolding(fileOperations, e) :
              \E j \in 1..Len(fileOperations[k].textEdits) :
                  isChecked(fileOperations[k].textEdits[j])

\* C5: getFileEdits(uri) returns the empty sequence whenever the operation
\* filed under uri has an unchecked structural contribution, whatever the
\* checked state of its text edits.
C5_StructuralVeto ==
    ret.op = "getFileEdits" =>
        \A k \in 1..Len(fileOperations) :
            (fileOperations[k].uri = ret.arg /\ structuralUnchecked(states, fileOperations[k]))
                => ret.val = <<>>

\* C5 witness: getFileEdits was called for an operation with an unchecked
\* structural edit and a checked text edit.
C5_Witness ==
    /\ ret.op = "getFileEdits"
    /\ \E k \in 1..Len(fileOperations) :
         /\ fileOperations[k].uri = ret.arg
         /\ structuralUnchecked(states, fileOperations[k])
         /\ \E j \in 1..Len(fileOperations[k].textEdits) :
              isChecked(fileOperations[k].textEdits[j])

\* C6: for an operation without unchecked structural contribution,
\* getFileEdits(uri) returns exactly its checked text edits, each once, in
\* ascending order of range start, equal starts in order of submission index.
C6_SortedProjection ==
    ret.op = "getFileEdits" =>
        \A k \in 1..Len(fileOperations) :
            (fileOperations[k].uri = ret.arg /\ ~structuralUnchecked(states, fileOperations[k])) =>
                LET expected == {i \in 1..Len(bulkEdit) :
                                    /\ InSeq(fileOperations[k].originalEdits, i)
                                    /\ WorkspaceTextEditIs(bulkEdit[i])
                                    /\ isChecked(i)}
                IN  /\ Len(ret.val) = Cardinality(expected)
                    /\ {ret.val[j].edit : j \in 1..Len(ret.val)} = expected
                    /\ \A j \in 1..Len(ret.val) : ret.val[j].range = bulkEdit[ret.val[j].edit].start
                    /\ \A j \in 1..(Len(ret.val) - 1) :
                           \/ ret.val[j].range < ret.val[j + 1].range
                           \/ /\ ret.val[j].range = ret.val[j + 1].range
                              /\ ret.val[j].edit < ret.val[j + 1].edit

\* C6 witness: two text edits were returned, the one submitted second first
\* (the sort moved it).
C6_Witness ==
    /\ ret.op = "getFileEdits"
    /\ Len(ret.val) = 2
    /\ ret.val[1].edit = 2
    /\ ret.val[1].range < ret.val[2].range

\* C7: getWorkspaceEdit returns the submitted list object itself exactly when
\* every edit of the list is checked, and another list object otherwise.
C7_FastPath ==
    ret.op = "getWorkspaceEdit" =>
        (ret.ref = "_bulkEdit" <=> \A i \in 1..Len(bulkEdit) : isChecked(i))

\* C7 witness: after an edit that needed confirmation was toggled on,
\* getWorkspaceEdit returned the submitted list.
C7_Witness ==
    /\ ret.op = "getWorkspaceEdit"
    /\ ret.ref = "_bulkEdit"
    /\ Len(bulkEdit) = MaxEdits
    /\ \E i \in 1..Len(bulkEdit) : bulkEdit[i].metadata.needsConfirmation

softCreateOnExisting(i) ==
    /\ i \in 1..Len(bulkEdit)
    /\ isCreate(bulkEdit[i])
    /\ bulkEdit[i].options.ignoreIfExists
    /\ bulkEdit[i].options.overwrite = "undefined"
    /\ i \in DOMAIN existsAt
    /\ bulkEdit[i].newUri \in existsAt[i]

inNoOperation(i) ==
    /\ OperationsHolding(operationByResource, i) = {}
    /\ OperationsHolding(fileOperations, i) = {}
    /\ \A c \in 1..Len(operationByCategory) :
           OperationsHolding(operationByCategory[c].operationByResource, i) = {}
    /\ \A c \in 1..Len(categories) :
           OperationsHolding(categories[c].operationByResource, i) = {}

\* C9 as stated: such a create is in no operation and no category, and is
\* not in the list getWorkspaceEdit returns, even when checked.
C9_ElidedEverywhere ==
    \A i \in 1..Len(bulkEdit) :
        softCreateOnExisting(i) =>
            /\ inNoOperation(i)
            /\ ret.op = "getWorkspaceEdit" => ~InSeq(ret.val, i)

\* C9 amended: such a create is in no operation and no category; it keeps
\* the checked state it was seeded with or toggled to, and is in the list
\* getWorkspaceEdit returns exactly when it is checked.
C9_ElidedFromOperations ==
    \A i \in 1..Len(bulkEdit) :
        softCreateOnExisting(i) =>
            /\ inNoOperation(i)
            /\ ret.op = "getWorkspaceEdit" => (InSeq(ret.val, i) <=> isChecked(i))

\* C9 witness: getWorkspaceEdit returned a compacted list that holds an
\* elided, checked create.
C9_Witness ==
    /\ ret.op = "getWorkspaceEdit"
    /\ ret.ref = "result"
    /\ \E i \in 1..Len(bulkEdit) :
         /\ softCreateOnExisting(i)
         /\ i \in skipped
         /\ isChecked(i)
         /\ InSeq(ret.val, i)

\* C10: a step that makes the single call updateChecked(obj, value) with value
\* equal to what isChecked(obj) reports before the call fires no event and
\* leaves checkedCount as it was (also for an edit the tracker never saw).
C10_NoEventWithoutFlip ==
    [][ (Len(calls') = 1 /\ isChecked(calls'[1][1]) = calls'[1][2]) =>
            (fired' = <<>> /\ checkedCount' = checkedCount)
      ]_vars

\* C11: checkedCount is the number of edits for which isChecked reports true;
\* it is never negative and never more than the number of edits observed.
C11_CountMatchesStates ==
    /\ checkedCount = Cardinality({o \in DOMAIN states : states[o]})
    /\ checkedCount >= 0
    /\ checkedCount <= Cardinality(DOMAIN states)

\* C11 witness: after _init, an edit seeded unchecked has been checked and
\* another one unchecked; one of two observed edits is counted.
C11_Witness ==
    /\ pc = "ready"
    /\ Cardinality(DOMAIN states) = 2
    /\ checkedCount = 1
    /\ \E i \in 1..Len(bulkEdit) : bulkEdit[i].metadata.needsConfirmation /\ isChecked(i)

\* C14: a processed rename was elided exactly when overwrite is unset,
\* ignoreIfExists is set and its newUri existed when the iteration asked.
C14_RenameElidedIffTargetExists ==
    \A i \in 1..Len(bulkEdit) :
        (i < idx /\ isRename(bulkEdit[i])) =>
            (i \in skipped <=>
                /\ bulkEdit[i].options.overwrite = "undefined"
                /\ bulkEdit[i].options.ignoreIfExists
                /\ i \in DOMAIN existsAt
                /\ bulkEdit[i].newUri \in existsAt[i])

\* the tasks in flight for the preview of uri
tasksOf(uri) == {k \in 1..Len(tasks) : tasks[k].uri = uri}

\* the layers of a document that is base content with the projection applied
projected(uri) == IF getFileEdits(uri) = <<>> THEN <<>> ELSE <<getFileEdits(uri)>>

\* C12: with the provider listening, a toggle of any edit of the list never
\* makes getUriOfEdit throw: no edit of the list is ever recorded as having hit
\* 'invalid edit' in the change listener.
C12_ToggleNeverNotFound == errors = {}

\* C13: once the provider listens and no update is in flight, the document of
\* every operation is its base content with getFileEdits(uri), computed from
\* the current checked state, applied.
C13_PreviewFollowsChecked ==
    (ppc = "ready" /\ tasks = <<>>) =>
        \A k \in 1..Len(fileOperations) :
            /\ fileOperations[k].uri \in DOMAIN models
            /\ models[fileOperations[k].uri].layers = projected(fileOperations[k].uri)

\* C17: no call of _applyTextEditsToPreviewModel for a uri starts while
\* another one for the same uri has not finished: at most one task per uri is
\* in flight.
C17_OneUpdatePerResource ==
    \A k, j \in 1..Len(tasks) : tasks[k].uri = tasks[j].uri => k = j

\* C18: for every document with a stored undo, applying the stored undo
\* gives the document without any projection: the stored undo is the inverse
\* of the one projection the document carries, and nothing of an earlier
\* projection is left in it.
C18_UndoRestoresInitial ==
    \A u \in DOMAIN modelPreviewEdits :
        /\ u \in DOMAIN models
        /\ modelPreviewEdits[u].inverse
        /\ applyEdits(models[u].layers, modelPreviewEdits[u]) = <<>>
        /\ Len(models[u].layers) <= 1

\* a second update has reverted a projection of two edits and applied one
\* that holds a single edit
C18_Witness ==
    \E k \in 1..Len(fileOperations) :
        LET u == fileOperations[k].uri
        IN  /\ u \in DOMAIN modelPreviewEdits
            /\ models[u].reverted
            /\ Len(fileOperations[k].textEdits) = 2
            /\ Len(models[u].layers) = 1
            /\ Len(models[u].layers[1]) = 1
            /\ modelPreviewEdits[u].edits = models[u].layers[1]

\* C19: createModel is called at most once for the preview uri of a
\* resource, whatever the order of the initial and the toggle-triggered
\* updates; the documents at hand are the created ones.
C19_AtMostOneDocument ==
    /\ DOMAIN models = DOMAIN created
    /\ \A u \in DOMAIN created : created[u] <= 1

\* a later update of a resource is in flight, its document has been created
\* once and has been through an update that reverted a projection
C19_Witness ==
    \E u \in DOMAIN created :
        /\ created[u] = 1
        /\ models[u].reverted
        /\ tasksOf(u) # {}

\* the edits the operations of a map hold
EditsFiledIn(map) ==
    UNION {{map[k].originalEdits[j] : j \in 1..Len(map[k].originalEdits)} : k \in 1..Len(map)}

\* C20: when an existence check rejects, create() rejects: nothing is
\* published (no fileOperations, no categories, no provider can be built on
\* the result) and no edit after the failing one is seeded or filed; when
\* opening the source document fails, the update still runs to its end, on a
\* document whose base content is empty.
C20_FailureSemantics ==
    /\ pc = "failed" <=> existsFailedAt # 0
    /\ existsFailedAt # 0 =>
        /\ fileOperations = <<>>
        /\ categories = <<>>
        /\ ppc = "none"
        /\ ret = NoRet
        /\ idx = existsFailedAt
        /\ DOMAIN states = 1..existsFailedAt
        /\ \A i \in EditsFiledIn(operationByResource) : i < existsFailedAt
        /\ \A c \in 1..Len(operationByCategory) :
               \A i \in EditsFiledIn(operationByCategory[c].operationByResource) :
                   i < existsFailedAt
    /\ \A u \in openFailed :
        /\ u \in DOMAIN models
        /\ models[u].base = "empty"
        /\ u \in DOMAIN modelPreviewEdits
        /\ modelPreviewEdits[u].inverse

\* the existence check of the first of two edits rejected
C20_WitnessAggregate ==
    /\ pc = "failed"
    /\ existsFailedAt = 1
    /\ Len(bulkEdit) = 2

\* opening the source of a resource failed, the provider went on to listen
\* and the empty document carries the projection
C20_Witness ==
    /\ ppc = "ready"
    /\ \E u \in openFailed :
          /\ models[u].base = "empty"
          /\ models[u].layers # <<>>
          /\ tasksOf(u) = {}

\* the state after the constructor of BulkFileOperations, for a list of lists
InitFor(lists) ==
    /\ bulkEdit \in lists
    /\ pc = "_init"
    /\ idx = 1
    /\ states = <<>>
    /\ checkedCount = 0
    /\ calls = <<>>
    /\ fired = <<>>
    /\ operationByResource = <<>>
    /\ operationByCategory = <<>>
    /\ newToOldUri = <<>>
    /\ existsAt = <<>>
    /\ skipped = {}
    /\ fileOperations = <<>>
    /\ categories = <<>>
    /\ ret = NoRet
    /\ existsFailedAt = 0
    /\ ppc = "none"
    /\ initPos = 1
    /\ tasks = <<>>
    /\ models = <<>>
    /\ created = <<>>
    /\ modelPreviewEdits = <<>>
    /\ openFailed = {}
    /\ errors = {}

\* the URI an edit is addressed to: the uri its iteration of _init starts from
addressedTo(edit) == classify(edit, {}).uri

\* C15: once _init has returned, every kept edit that follows a kept rename
\* X -> Y in the list and is addressed to Y is held by the global operation
\* that holds the rename.
C15_LaterEditsFoldOntoRename ==
    pc = "ready" =>
        \A i, j \in 1..Len(bulkEdit) :
            ( /\ i < j
              /\ isRename(bulkEdit[i])
              /\ i \notin skipped
              /\ j \notin skipped
              /\ addressedTo(bulkEdit[j]) = bulkEdit[i].newUri )
            => OperationsHolding(fileOperations, j) = OperationsHolding(fileOperations, i)

CategoriesHolding(i) ==
    {c \in 1..Len(categories) : OperationsHolding(categories[c].operationByResource, i) # {}}

\* C16: once _init has returned, every kept edit is held by exactly one
\* category, the one of its label, and the operation holding it there has the
\* URI of the global operation holding it.
C16_CategoryAgreesWithGlobal ==
    pc = "ready" =>
        \A i \in 1..Len(bulkEdit) :
            i \notin skipped =>
                /\ Cardinality(CategoriesHolding(i)) = 1
                /\ \A c \in CategoriesHolding(i) :
                       /\ categories[c].key = keyOf(bulkEdit[i].metadata)
                       /\ \A k \in OperationsHolding(categories[c].operationByResource, i) :
                              \A g \in OperationsHolding(fileOperations, i) :
                                  categories[c].operationByResource[k].uri = fileOperations[g].uri

Init == InitFor(EditLists)

Next ==
    \/ initEdit
    \/ initExistsRejected
    \/ initFinish
    \/ toggle
    \/ callGetWorkspaceEdit
    \/ callGetFileEdits

Spec == Init /\ [][Next]_vars

\* the same operations on the lists of FoldLists
FoldInit == InitFor(FoldLists)

FoldNext ==
    \/ initEdit
    \/ initExistsRejected
    \/ initFinish

FoldSpec == FoldInit /\ [][FoldNext]_vars

\* BulkFileOperations.create followed by the preview provider on its result
PreviewInit == InitFor(PreviewLists)

PreviewNext ==
    \/ initEdit
    \/ initExistsRejected
    \/ initFinish
    \/ toggle
    \/ providerCreate
    \/ taskOpened
    \/ taskResumed

PreviewSpec == PreviewInit /\ [][PreviewNext]_vars

====
